---- MODULE Spec2Model ----
(***************************************************************************)
(* FreshFin: a personal finance tracker (React).  The model follows the    *)
(* App component with month navigation (src/unnamed/part_001, lines 77 on) *)
(* and the advice service (same file, lines 1-76).                          *)
(*                                                                         *)
(* Conventions                                                             *)
(*  - a calendar date is a record [y, m, d] with m in 0..11 as JavaScript's *)
(*    Date.getMonth() returns it;                                           *)
(*  - amounts and budgets are whole currency units (integers); a quotient  *)
(*    the code computes in floating point is kept exact as [num, den];     *)
(*  - text typed into a numeric field is a sequence of one-character       *)
(*    strings, so that parseFloat and toString are real conversions;       *)
(*  - values cached by useMemo whose dependency list omits something they  *)
(*    read are state variables (isCurrentMonth, currentMonthTransactions); *)
(*    the other memoised values are operators over the state, computed as  *)
(*    their callbacks compute them when a render re-evaluates them.        *)
(***************************************************************************)
EXTENDS Integers, Sequences, FiniteSets, TLC

\* ------------------------------------------------------------------ bounds

\* Transactions created in one run (crypto.randomUUID() calls).
MaxAdds == 2
\* Calendar instants of CalendarDates the clock may visit.
MaxClock == 3
\* Months the view may be navigated before the first calendar month.
MaxBack == 1
\* Months the view may be navigated after the first calendar month.
MaxAhead == 2

\* ---------------------------------------------------------------- calendar

MkDate(y, m, d) == [y |-> y, m |-> m, d |-> d]

IsLeap(y) == (y % 4 = 0 /\ y % 100 # 0) \/ (y % 400 = 0)

\* new Date(year, month + 1, 0).getDate(): the last day of the month.
LastDayOfMonth(y, m) ==
  CASE m = 1 -> IF IsLeap(y) THEN 29 ELSE 28
    [] m \in {3, 5, 8, 10} -> 30
    [] OTHER -> 31

\* The Date constructor's normalisation: a month outside 0..11 carries into
\* the year, a day past the end of the month carries into the next month.
NormDate(y, m, d) ==
  LET yy == y + (m \div 12)
      mm == m % 12
      last == LastDayOfMonth(yy, mm)
  IN  IF d <= last THEN MkDate(yy, mm, d)
      ELSE MkDate(yy + ((mm + 1) \div 12), (mm + 1) % 12, d - last)

\* The calendar date k days (k in -1..1) from date.
AddDays(date, k) ==
  IF k = 0 THEN date
  ELSE IF k = 1 THEN NormDate(date.y, date.m, date.d + 1)
  ELSE IF date.d > 1 THEN MkDate(date.y, date.m, date.d - 1)
  ELSE LET yy == date.y + ((date.m - 1) \div 12)
           mm == (date.m - 1) % 12
       IN  MkDate(yy, mm, LastDayOfMonth(yy, mm))

\* Months since year 0, for comparing months.
MonthIndex(date) == date.y * 12 + date.m

\* date1 > date2 on Date objects, at the resolution of the calendar day.
DateGT(a, b) ==
  \/ MonthIndex(a) > MonthIndex(b)
  \/ MonthIndex(a) = MonthIndex(b) /\ a.d > b.d

\* The local dates at which the clock is read in a run, in time order.
CalendarDates ==
  << MkDate(2024, 0, 30), MkDate(2024, 0, 31), MkDate(2024, 1, 1),
     MkDate(2024, 1, 29), MkDate(2024, 2, 1), MkDate(2024, 2, 31),
     MkDate(2024, 3, 1) >>

NumClock == IF MaxClock < Len(CalendarDates) THEN MaxClock ELSE Len(CalendarDates)

\* The time zones of the browser: west of UTC the UTC calendar date is the
\* local date or the day after it, east of UTC the local date or the day before.
TimeZones == {"west", "east"}
UtcShifts(zone) == IF zone = "west" THEN {0, 1} ELSE {-1, 0}

\* ------------------------------------------------------------------- text

Digits == <<"0", "1", "2", "3", "4", "5", "6", "7", "8", "9">>
IsDigit(c) == \E i \in 1..10 : Digits[i] = c
DigitVal(c) == (CHOOSE i \in 1..10 : Digits[i] = c) - 1

RECURSIVE DigitsValue(_, _, _)
\* The value of the digits s[from..to].
DigitsValue(s, from, to) ==
  IF to < from THEN 0
  ELSE 10 * DigitsValue(s, from, to - 1) + DigitVal(s[to])

NaN == [nan |-> TRUE, val |-> 0]
Num(v) == [nan |-> FALSE, val |-> v]

\* ParseFloat reading a single digit and dropping a sign.
ParseFloat_unsigned(s) ==
  LET from == IF Len(s) > 0 /\ s[1] \in {"-", "+"} THEN 2 ELSE 1
  IN  IF from > Len(s) \/ ~IsDigit(s[from]) THEN NaN
      ELSE Num(DigitsValue(s, from, from))

\* parseFloat on text without a decimal point or exponent: an optional sign,
\* then the longest run of digits; NaN when there is no digit.
ParseFloat(s) ==
  LET signed == Len(s) > 0 /\ s[1] \in {"-", "+"}
      from == IF signed THEN 2 ELSE 1
      n == CHOOSE k \in 0..Len(s) :
             /\ from + k - 1 <= Len(s)
             /\ \A i \in from..(from + k - 1) : IsDigit(s[i])
             /\ (from + k > Len(s) \/ ~IsDigit(s[from + k]))
      v == DigitsValue(s, from, from + n - 1)
  IN  IF n = 0 THEN NaN
      ELSE Num(IF signed /\ s[1] = "-" THEN 0 - v ELSE v)

\* NumToString giving the last digit only.
NumToString_units(n) == <<Digits[(n % 10) + 1]>>

RECURSIVE NumToString(_)
\* Number.prototype.toString on an integer.
NumToString(n) ==
  IF n < 0 THEN <<"-">> \o NumToString(0 - n)
  ELSE IF n < 10 THEN <<Digits[n + 1]>>
  ELSE NumToString(n \div 10) \o <<Digits[(n % 10) + 1]>>

\* ------------------------------------------------------------ transactions

\* TransactionType
EXPENSE == "EXPENSE"
INCOME == "INCOME"
TransactionType == {EXPENSE, INCOME}

\* Titles a user types (free text).  "2" is a canonical array index,
\* "__proto__" names the prototype accessor of a plain object.
Tea == <<"T", "e", "a">>
Two == <<"2">>
Proto == <<"_", "_", "p", "r", "o", "t", "o", "_", "_">>
Titles == {Tea, Two, Proto}

\* Texts typed into the amount field and into the budget field.
AmountInputs == {<<>>, <<"x">>, <<"0">>, <<"-", "1">>, <<"1">>, <<"2">>}
BudgetInputs == {<<>>, <<"x">>, <<"0">>, <<"-", "1">>, <<"2">>, <<"3">>}
\* Those of them the ledger's steps enter: the ones the handlers accept.
LedgerAmounts == {text \in AmountInputs : ~ParseFloat(text).nan /\ ParseFloat(text).val > 0}
LedgerBudgets == {<<"1">>}

\* Max yielding 0 whatever its arguments.
Max_zero(a, b) == 0

\* Math.max
Max(a, b) == IF a >= b THEN a ELSE b

\* The indices 1..n of keys in the order a stable sort by descending key
\* leaves them (Array.prototype.sort with (a, b) => b.key - a.key).
RECURSIVE SortedIdxDesc(_, _)
SortedIdxDesc(keys, n) ==
  IF n = 0 THEN <<>>
  ELSE LET prev == SortedIdxDesc(keys, n - 1)
           k == Cardinality({i \in 1..(n - 1) : keys[prev[i]] >= keys[n]})
       IN  SubSeq(prev, 1, k) \o <<n>> \o SubSeq(prev, k + 1, n - 1)

\* currentMonthTransactions.sort((a, b) => b.timestamp - a.timestamp)
SortByTimestampDesc(txs) ==
  LET idx == SortedIdxDesc([i \in 1..Len(txs) |-> txs[i].timestamp], Len(txs))
  IN  [i \in 1..Len(txs) |-> txs[idx[i]]]

\* FilterMonth without the test of the date.
FilterMonth_all(txs, vd) == txs

\* transactions.filter(t => t.date.startsWith(currentMonthStr)), where
\* currentMonthStr is the view date's "YYYY-MM" and t.date is "YYYY-MM-DD".
FilterMonth(txs, vd) ==
  SelectSeq(txs, LAMBDA t : t.date.y = vd.y /\ t.date.m = vd.m)

RECURSIVE SumAmounts_seeded(_)
\* SumAmounts with the reduction started at 1.
SumAmounts_seeded(txs) ==
  IF txs = <<>> THEN 1
  ELSE SumAmounts_seeded(SubSeq(txs, 1, Len(txs) - 1)) + txs[Len(txs)].amount

RECURSIVE SumAmounts(_)
\* reduce((sum, t) => sum + t.amount, 0)
SumAmounts(txs) ==
  IF txs = <<>> THEN 0
  ELSE SumAmounts(SubSeq(txs, 1, Len(txs) - 1)) + txs[Len(txs)].amount

\* OfType without the test of the type.
OfType_any(txs, type) == txs

OfType(txs, type) == SelectSeq(txs, LAMBDA t : t.type = type)

\* A quotient n / d of the code, kept exact.
Quot(n, d) == [num |-> n, den |-> d]
Zero == Quot(0, 1)
\* Math.max(0, q) for a quotient with a positive denominator.
MaxZero(q) == IF q.num > 0 THEN q ELSE Zero

\* ------------------------------------------------------------------ state

VARIABLES
  clock,                     \* index into CalendarDates: the local date now
  zone,                      \* the browser's time zone, fixed in a run
  utcShift,                  \* UTC calendar date minus local calendar date, now
  transactions,              \* useState: the transaction store, newest first
  monthlyBudget,             \* useState
  viewDate,                  \* useState: the viewed date
  newTransTitle,             \* useState: form field
  newTransAmount,            \* useState: form field (text)
  newTransType,              \* useState: form field
  isBudgetModalOpen,         \* useState
  tempBudgetInput,           \* useState: budget field (text)
  aiAdvice,                  \* useState: NoAdvice or an advice text
  isAiLoading,               \* useState
  isCurrentMonth,            \* useMemo over [viewDate] only
  currentMonthTransactions,  \* useMemo array, as the last render left it
  pending,                   \* handleGetAdvice calls suspended at their await
  hasApiKey,                 \* whether process.env.API_KEY is configured
  storage,                   \* localStorage
  nextId                     \* transactions created so far, plus one

vars ==
  << clock, zone, utcShift, transactions, monthlyBudget, viewDate,
     newTransTitle, newTransAmount, newTransType, isBudgetModalOpen,
     tempBudgetInput, aiAdvice, isAiLoading, isCurrentMonth,
     currentMonthTransactions, pending, hasApiKey, storage, nextId >>

\* new Date(): the local calendar date now.
today == CalendarDates[clock]

\* new Date().toISOString().split('T')[0]: the UTC calendar date now.
todayStr == AddDays(today, utcShift)

\* Date.now(): later clock readings give later or equal timestamps.
DateNow == 2 * clock + (IF zone = "west" THEN utcShift ELSE utcShift + 1)

\* The value the isCurrentMonth callback returns for a view date, now.
IsCurrentMonthOf(vd) == vd.m = today.m /\ vd.y = today.y

\* The value the currentMonthTransactions callback returns.
monthSubset == FilterMonth(transactions, viewDate)

\* The memoised array after a render: the transaction list's render sorts it
\* in place whenever it is not empty.
RenderedSubset(txs, vd) ==
  LET subset == FilterMonth(txs, vd)
  IN  IF Len(subset) = 0 THEN subset ELSE SortByTimestampDesc(subset)

\* ---------------------------------------------------------- derived values

\* The stats callback, of the values it reads: the memoised subset, the
\* budget, the view date, the memoised isCurrentMonth and new Date().
StatsOf(subset, budget, vd, cur, now) ==
  LET totalSpent == SumAmounts(OfType(subset, EXPENSE))
      totalIncome == SumAmounts(OfType(subset, INCOME))
      remainingBudget == budget - totalSpent
      lastDayOfMonth == LastDayOfMonth(vd.y, vd.m)
      currentDay == now.d
      daysRemaining ==
        IF cur THEN Max(1, lastDayOfMonth - currentDay + 1) ELSE 0
      dailyAvailable ==
        IF cur THEN MaxZero(Quot(remainingBudget, daysRemaining))
        ELSE Zero
  IN  [ daysRemaining |-> daysRemaining,
        dailyAvailable |-> dailyAvailable,
        totalSpentThisMonth |-> totalSpent,
        totalIncomeThisMonth |-> totalIncome,
        remainingBudget |-> remainingBudget ]

stats ==
  StatsOf(currentMonthTransactions, monthlyBudget, viewDate, isCurrentMonth,
          today)

NoEntry == [income |-> 0, expense |-> 0]

RECURSIVE FillDayMap_untyped(_, _)
\* FillDayMap adding every amount to the day's expense.
FillDayMap_untyped(dayMap, txs) ==
  IF txs = <<>> THEN dayMap
  ELSE LET before == FillDayMap_untyped(dayMap, SubSeq(txs, 1, Len(txs) - 1))
           t == txs[Len(txs)]
           day == t.date.d
           current == IF day \in DOMAIN before THEN before[day] ELSE NoEntry
           updated == [current EXCEPT !.expense = @ + t.amount]
       IN  [d \in (DOMAIN before) \cup {day} |->
              IF d = day THEN updated ELSE before[d]]

\* FillDayMap without the pass over the transactions.
FillDayMap_none(dayMap, txs) == dayMap

RECURSIVE FillDayMap(_, _)
\* currentMonthTransactions.forEach(t => ...) over the initialised dayMap.
FillDayMap(dayMap, txs) ==
  IF txs = <<>> THEN dayMap
  ELSE LET before == FillDayMap(dayMap, SubSeq(txs, 1, Len(txs) - 1))
           t == txs[Len(txs)]
           day == t.date.d
           current == IF day \in DOMAIN before THEN before[day] ELSE NoEntry
           updated ==
             IF t.type = INCOME
             THEN [current EXCEPT !.income = @ + t.amount]
             ELSE [current EXCEPT !.expense = @ + t.amount]
       IN  [d \in (DOMAIN before) \cup {day} |->
              IF d = day THEN updated ELSE before[d]]

\* `${i}日`
DayLabel(i) == NumToString(i) \o <<"日">>

\* The chartData callback, of the values it reads.
ChartDataOf(subset, vd, cur, now) ==
  LET daysInMonth == LastDayOfMonth(vd.y, vd.m)
      dayMap == FillDayMap([i \in 1..daysInMonth |-> NoEntry], subset)
      showUntilDay ==
        IF cur THEN now.d
        ELSE IF DateGT(vd, now) THEN 0
        ELSE daysInMonth
      \* for (i = 1; i <= daysInMonth; i++) if (i <= showUntilDay) push
      shown == SelectSeq([i \in 1..daysInMonth |-> i],
                         LAMBDA i : i <= showUntilDay)
  IN  [k \in 1..Len(shown) |->
         [ date |-> DayLabel(shown[k]),
           income |-> dayMap[shown[k]].income,
           expense |-> dayMap[shown[k]].expense ]]

chartData ==
  ChartDataOf(currentMonthTransactions, viewDate, isCurrentMonth, today)

\* A plain object used as a map: its own keys in insertion order, and their
\* values.
EmptyObject == [keys |-> <<>>, val |-> <<>>]

HasOwn(obj, key) == \E i \in 1..Len(obj.keys) : obj.keys[i] = key
OwnIndex(obj, key) == CHOOSE i \in 1..Len(obj.keys) : obj.keys[i] = key

\* groupMap[title] = (groupMap[title] || 0) + amount on a plain object.  An
\* own key accumulates.  "__proto__" is never an own key: the read yields
\* Object.prototype (truthy), the sum is a string, and the inherited setter
\* ignores a value that is not an object, so the object is left as it was.
GroupPut(obj, title, amount) ==
  IF HasOwn(obj, title)
  THEN [obj EXCEPT !.val[OwnIndex(obj, title)] = @ + amount]
  ELSE IF title = Proto THEN obj
  ELSE [keys |-> Append(obj.keys, title), val |-> Append(obj.val, amount)]

RECURSIVE GroupByTitle(_)
\* expenses.forEach(t => { groupMap[t.title] = ... }) from an empty object.
GroupByTitle(txs) ==
  IF txs = <<>> THEN EmptyObject
  ELSE GroupPut(GroupByTitle(SubSeq(txs, 1, Len(txs) - 1)),
                txs[Len(txs)].title, txs[Len(txs)].amount)

\* A canonical array index: decimal digits without a leading zero.
IsArrayIndex(key) ==
  /\ Len(key) > 0
  /\ \A i \in 1..Len(key) : IsDigit(key[i])
  /\ (Len(key) = 1 \/ key[1] # "0")

\* Object.entries: the array-index keys in ascending numeric order, then the
\* other string keys in insertion order.
ObjectEntries(obj) ==
  LET n == Len(obj.keys)
      isIdx(i) == IsArrayIndex(obj.keys[i])
      idxVal(i) == DigitsValue(obj.keys[i], 1, Len(obj.keys[i]))
      \* the number of entries that precede entry i
      rank(i) ==
        IF isIdx(i)
        THEN Cardinality({j \in 1..n : isIdx(j) /\ idxVal(j) < idxVal(i)})
        ELSE Cardinality({j \in 1..n : isIdx(j) \/ j < i})
  IN  [k \in 1..n |->
         LET i == CHOOSE j \in 1..n : rank(j) = k - 1
         IN  <<obj.keys[i], obj.val[i]>>]

\* entries.sort((a, b) => b.amount - a.amount)
SortByAmountDesc(slices) ==
  LET idx == SortedIdxDesc([i \in 1..Len(slices) |-> slices[i].amount],
                           Len(slices))
  IN  [i \in 1..Len(slices) |-> slices[idx[i]]]

\* The categoryStats callback, of the subset it reads.  It reads the memoised
\* subset as its callback returned it: categoryStats is re-evaluated exactly
\* when currentMonthTransactions is, before the render sorts that array.
CategoryStatsOf(subset) ==
  LET expenses == OfType(subset, EXPENSE)
      totalExpense == SumAmounts(expenses)
      entries == ObjectEntries(GroupByTitle(expenses))
  IN  IF totalExpense = 0 THEN <<>>
      ELSE SortByAmountDesc(
             [i \in 1..Len(entries) |->
                [ name |-> entries[i][1],
                  amount |-> entries[i][2],
                  percentage |-> Quot(entries[i][2] * 100, totalExpense) ]])

categoryStats == CategoryStatsOf(monthSubset)

\* ------------------------------------------------------------ advice service

NoAdvice == "null"
MissingKeyMessage == "API Key is missing. Please check your configuration."
NoInsightMessage == "No insight available at the moment."
FailureMessage == "Could not generate advice at this time. Please try again later."
ServiceText == "advice"

\* What the text-generation service does with a request.
ServiceOutcomes == {"text", "empty", "error"}

\* new Date(t.date) reads "YYYY-MM-DD" as midnight UTC; getMonth() and
\* getFullYear() then give the local date of that instant.
LocalDateOf(isoDate) == IF zone = "west" THEN AddDays(isoDate, -1) ELSE isoDate

\* The figures getFinancialAdvice puts into its prompt.
AdvicePrompt(txs, budget) ==
  LET recentTransactions ==
        SelectSeq(txs, LAMBDA t :
          /\ LocalDateOf(t.date).m = today.m
          /\ LocalDateOf(t.date).y = today.y)
      totalSpent == SumAmounts(OfType(recentTransactions, EXPENSE))
      totalIncome == SumAmounts(OfType(recentTransactions, INCOME))
      spending == ObjectEntries(GroupByTitle(OfType(recentTransactions, EXPENSE)))
      sorted == SortByAmountDesc(
                  [i \in 1..Len(spending) |->
                     [name |-> spending[i][1], amount |-> spending[i][2]]])
      topSpending == SubSeq(sorted, 1, IF Len(sorted) < 3 THEN Len(sorted) ELSE 3)
  IN  [ budget |-> budget,
        totalSpent |-> totalSpent,
        totalIncome |-> totalIncome,
        topSpending |-> topSpending,
        remaining |-> budget - totalSpent ]

\* A call of handleGetAdvice suspended at its await: the prompt its service
\* call was given, and the view date of the render whose handler it is.
AdviceCall(txs, budget, vd) ==
  [prompt |-> AdvicePrompt(txs, budget), viewDate |-> vd]

\* --------------------------------------------------------------- persistence

\* JSON.stringify(transactions): the array of the transactions' members in
\* order, a string member as it is and a number member as its decimal text.
JsonStringify(txs) ==
  [i \in 1..Len(txs) |->
     [ id |-> txs[i].id,
       title |-> txs[i].title,
       amount |-> NumToString(txs[i].amount),
       type |-> txs[i].type,
       date |-> txs[i].date,
       timestamp |-> NumToString(txs[i].timestamp) ]]

\* A number of a JSON text: an optional minus sign and decimal digits.
JsonNumber(text) ==
  IF text[1] = "-" THEN 0 - DigitsValue(text, 2, Len(text))
  ELSE DigitsValue(text, 1, Len(text))

\* JSON.parse of such a text.
JsonParse(json) ==
  [i \in 1..Len(json) |->
     [ id |-> json[i].id,
       title |-> json[i].title,
       amount |-> JsonNumber(json[i].amount),
       type |-> json[i].type,
       date |-> json[i].date,
       timestamp |-> JsonNumber(json[i].timestamp) ]]

\* The two effects: localStorage.setItem of JSON.stringify(transactions) and
\* of monthlyBudget.toString().
Persisted(txs, budget) ==
  [transactions |-> JsonStringify(txs), budget |-> NumToString(budget)]

DefaultBudget == 5000

\* ------------------------------------------------------------------- Init

\* The state after the first render, whatever the build's configuration.
InitState ==
  /\ clock = 1
  /\ zone \in TimeZones
  /\ utcShift \in UtcShifts(zone)
  /\ transactions = <<>>
  /\ monthlyBudget = DefaultBudget
  /\ viewDate = today
  /\ newTransTitle = <<>>
  /\ newTransAmount = <<>>
  /\ newTransType = EXPENSE
  /\ isBudgetModalOpen = FALSE
  /\ tempBudgetInput = NumToString(DefaultBudget)
  /\ aiAdvice = NoAdvice
  /\ isAiLoading = FALSE
  /\ isCurrentMonth = TRUE
  /\ currentMonthTransactions = <<>>
  /\ pending = <<>>
  /\ storage = Persisted(<<>>, DefaultBudget)
  /\ nextId = 1

\* A build configured with an API key.
Init ==
  /\ hasApiKey = TRUE
  /\ InitState

\* A build with or without an API key.
InitAdvice ==
  /\ hasApiKey \in BOOLEAN
  /\ InitState

clockVars == << clock, zone, utcShift, hasApiKey >>
formVars == << newTransTitle, newTransAmount, newTransType >>
budgetVars == << monthlyBudget, isBudgetModalOpen, tempBudgetInput >>
adviceVars == << aiAdvice, isAiLoading, pending >>
storeVars == << transactions, currentMonthTransactions, storage, nextId >>
viewVars == << viewDate, isCurrentMonth >>

\* ------------------------------------------------------------------ clock

\* Time passes: a later reading of the clock, on the same local date or on a
\* later one.  Nothing is rendered.
Tick ==
  /\ \E c \in clock..NumClock, u \in UtcShifts(zone) :
       /\ (c > clock \/ u > utcShift)
       /\ clock' = c
       /\ utcShift' = u
  /\ UNCHANGED << zone, hasApiKey, formVars, budgetVars, adviceVars, storeVars,
                  viewVars >>

\* ---------------------------------------------------------------- handlers

\* ChangeMonth with the store itself becoming the rendered month subset.
ChangeMonth_aliased(offset) ==
  /\ offset = 1 => ~(isCurrentMonth /\ viewDate.d >= today.d)
  /\ LET newDate == NormDate(viewDate.y, viewDate.m + offset, viewDate.d)
         subset == RenderedSubset(transactions, newDate)
     IN  /\ MonthIndex(newDate) >= MonthIndex(CalendarDates[1]) - MaxBack
         /\ MonthIndex(newDate) <= MonthIndex(CalendarDates[1]) + MaxAhead
         /\ viewDate' = newDate
         /\ isCurrentMonth' = IsCurrentMonthOf(newDate)
         /\ currentMonthTransactions' = subset
         /\ transactions' = subset
         /\ storage' = Persisted(subset, monthlyBudget)
  /\ aiAdvice' = NoAdvice
  /\ UNCHANGED << clockVars, formVars, budgetVars, isAiLoading, pending, nextId >>

\* changeMonth(offset), from the month navigator.  The next-month button is
\* disabled while isCurrentMonth && viewDate.getDate() >= new Date().getDate().
ChangeMonth(offset) ==
  /\ offset = 1 => ~(isCurrentMonth /\ viewDate.d >= today.d)
  /\ LET newDate == NormDate(viewDate.y, viewDate.m + offset, viewDate.d)
     IN  /\ MonthIndex(newDate) >= MonthIndex(CalendarDates[1]) - MaxBack
         /\ MonthIndex(newDate) <= MonthIndex(CalendarDates[1]) + MaxAhead
         /\ viewDate' = newDate
         /\ isCurrentMonth' = IsCurrentMonthOf(newDate)
         /\ currentMonthTransactions' = RenderedSubset(transactions, newDate)
  /\ aiAdvice' = NoAdvice
  /\ UNCHANGED << clockVars, formVars, budgetVars, isAiLoading, pending,
                  transactions, storage, nextId >>

\* The form is rendered only while isCurrentMonth.
SetNewTransTitle(v) ==
  /\ isCurrentMonth
  /\ newTransTitle' = v
  /\ UNCHANGED << clockVars, newTransAmount, newTransType, budgetVars,
                  adviceVars, storeVars, viewVars >>

SetNewTransAmount(v) ==
  /\ isCurrentMonth
  /\ newTransAmount' = v
  /\ UNCHANGED << clockVars, newTransTitle, newTransType, budgetVars,
                  adviceVars, storeVars, viewVars >>

SetNewTransType(v) ==
  /\ isCurrentMonth
  /\ newTransType' = v
  /\ UNCHANGED << clockVars, newTransTitle, newTransAmount, budgetVars,
                  adviceVars, storeVars, viewVars >>

\* The transaction handleAddTransaction builds from the form's fields.
NewTransaction(title, amountText, type) ==
  [ id |-> nextId,
    title |-> title,
    amount |-> ParseFloat(amountText).val,
    type |-> type,
    date |-> todayStr,
    timestamp |-> DateNow ]

\* AddRejected without the tests of the parsed amount.
AddRejected_unparsed(title, amountText) ==
  \/ title = <<>>
  \/ amountText = <<>>

\* Whether handleAddTransaction returns early.
AddRejected(title, amountText) ==
  \/ title = <<>>
  \/ amountText = <<>>
  \/ ParseFloat(amountText).nan
  \/ ParseFloat(amountText).val <= 0

\* handleAddTransaction with the form holding title, amountText and type.
AddTransaction(title, amountText, type) ==
  /\ nextId <= MaxAdds
  /\ newTransType' = type
  /\ IF AddRejected(title, amountText)
     THEN /\ newTransTitle' = title
          /\ newTransAmount' = amountText
          /\ UNCHANGED << storeVars, viewVars >>
     ELSE LET added == <<NewTransaction(title, amountText, type)>> \o transactions
              newView == IF ~isCurrentMonth THEN today ELSE viewDate
          IN  /\ transactions' = added
              /\ nextId' = nextId + 1
              /\ newTransTitle' = <<>>
              /\ newTransAmount' = <<>>
              /\ viewDate' = newView
              /\ isCurrentMonth' =
                   IF ~isCurrentMonth THEN IsCurrentMonthOf(newView)
                   ELSE isCurrentMonth
              /\ currentMonthTransactions' = RenderedSubset(added, newView)
              /\ storage' = Persisted(added, monthlyBudget)
  /\ UNCHANGED << clockVars, budgetVars, adviceVars >>

\* The form's submit, with the fields as they are.
HandleAddTransaction ==
  /\ isCurrentMonth
  /\ AddTransaction(newTransTitle, newTransAmount, newTransType)

\* The user fills in the three fields of the form and submits it: the three
\* setters, which touch nothing but the fields, then handleAddTransaction.
SubmitForm(title, amountText, type) ==
  /\ isCurrentMonth
  /\ AddTransaction(title, amountText, type)

\* DeleteId removing the newest transaction, whatever the id.
DeleteId_newest(id) ==
  /\ transactions # <<>>
  /\ LET kept == Tail(transactions)
     IN  /\ transactions' = kept
         /\ currentMonthTransactions' = RenderedSubset(kept, viewDate)
         /\ storage' = Persisted(kept, monthlyBudget)
  /\ UNCHANGED << clockVars, formVars, budgetVars, adviceVars, viewVars, nextId >>

\* handleDelete(id): setTransactions(prev => prev.filter(t => t.id !== id)).
DeleteId(id) ==
  /\ LET kept == SelectSeq(transactions, LAMBDA t : t.id # id)
     IN  /\ transactions' = kept
         /\ currentMonthTransactions' = RenderedSubset(kept, viewDate)
         /\ storage' = Persisted(kept, monthlyBudget)
  /\ UNCHANGED << clockVars, formVars, budgetVars, adviceVars, viewVars, nextId >>

\* handleDelete(id), from the delete button of a listed transaction.
HandleDelete(id) ==
  /\ \E i \in 1..Len(currentMonthTransactions) :
       currentMonthTransactions[i].id = id
  /\ DeleteId(id)

\* The settings button and the budget card.
OpenBudgetModal ==
  /\ tempBudgetInput' = NumToString(monthlyBudget)
  /\ isBudgetModalOpen' = TRUE
  /\ UNCHANGED << clockVars, formVars, monthlyBudget, adviceVars, storeVars,
                  viewVars >>

SetTempBudgetInput(v) ==
  /\ isBudgetModalOpen
  /\ tempBudgetInput' = v
  /\ UNCHANGED << clockVars, formVars, monthlyBudget, isBudgetModalOpen,
                  adviceVars, storeVars, viewVars >>

CancelBudget ==
  /\ isBudgetModalOpen
  /\ isBudgetModalOpen' = FALSE
  /\ UNCHANGED << clockVars, formVars, monthlyBudget, tempBudgetInput,
                  adviceVars, storeVars, viewVars >>

\* saveBudget with the budget field holding text.
SaveBudgetOf(text) ==
  /\ tempBudgetInput' = text
  /\ LET val == ParseFloat(text)
     IN  IF ~val.nan /\ val.val > 0
         THEN /\ monthlyBudget' = val.val
              /\ isBudgetModalOpen' = FALSE
              /\ storage' = Persisted(transactions, val.val)
         ELSE /\ isBudgetModalOpen' = TRUE
              /\ UNCHANGED << monthlyBudget, storage >>
  /\ UNCHANGED << clockVars, formVars, adviceVars, transactions,
                  currentMonthTransactions, nextId, viewVars >>

\* The modal's save button, with the field as it is.
SaveBudget ==
  /\ isBudgetModalOpen
  /\ SaveBudgetOf(tempBudgetInput)

\* The user opens the budget modal, types text into its field and saves.
EditBudget(text) == SaveBudgetOf(text)

\* HandleGetAdvice from a button that is not disabled while isAiLoading.
HandleGetAdvice_enabled ==
  /\ Len(currentMonthTransactions) > 0
  /\ aiAdvice = NoAdvice
  /\ Len(pending) < 3
  /\ IF ~hasApiKey
     THEN /\ aiAdvice' = MissingKeyMessage
          /\ isAiLoading' = FALSE
          /\ UNCHANGED pending
     ELSE /\ aiAdvice' = NoAdvice
          /\ isAiLoading' = TRUE
          /\ pending' =
               Append(pending, AdviceCall(transactions, monthlyBudget, viewDate))
  /\ UNCHANGED << clockVars, formVars, budgetVars, storeVars, viewVars >>

\* handleGetAdvice up to its await.  The button is rendered while the month
\* subset is not empty and aiAdvice is falsy, and disabled while isAiLoading.
\* Without an API key getFinancialAdvice returns at once and the continuation
\* runs before any other event.
HandleGetAdvice ==
  /\ Len(currentMonthTransactions) > 0
  /\ aiAdvice = NoAdvice
  /\ ~isAiLoading
  /\ IF ~hasApiKey
     THEN /\ aiAdvice' = MissingKeyMessage
          /\ isAiLoading' = FALSE
          /\ UNCHANGED pending
     ELSE /\ aiAdvice' = NoAdvice
          /\ isAiLoading' = TRUE
          /\ pending' =
               Append(pending, AdviceCall(transactions, monthlyBudget, viewDate))
  /\ UNCHANGED << clockVars, formVars, budgetVars, storeVars, viewVars >>

\* AdviceSettles with a failure of the service call rejecting the promise of
\* getFinancialAdvice: the rest of handleGetAdvice does not run.
AdviceSettles_rejecting(i, outcome) ==
  /\ i \in 1..Len(pending)
  /\ IF outcome = "error"
     THEN UNCHANGED << aiAdvice, isAiLoading >>
     ELSE /\ aiAdvice' = IF outcome = "text" THEN ServiceText ELSE NoInsightMessage
          /\ isAiLoading' = FALSE
  /\ pending' = SubSeq(pending, 1, i - 1) \o SubSeq(pending, i + 1, Len(pending))
  /\ UNCHANGED << clockVars, formVars, budgetVars, storeVars, viewVars >>

\* AdviceSettles with the continuation also moving the view to today.
AdviceSettles_viewToday(i, outcome) ==
  /\ i \in 1..Len(pending)
  /\ aiAdvice' = CASE outcome = "text" -> ServiceText
                   [] outcome = "empty" -> NoInsightMessage
                   [] OTHER -> FailureMessage
  /\ isAiLoading' = FALSE
  /\ pending' = SubSeq(pending, 1, i - 1) \o SubSeq(pending, i + 1, Len(pending))
  /\ viewDate' = today
  /\ isCurrentMonth' = IsCurrentMonthOf(today)
  /\ currentMonthTransactions' = RenderedSubset(transactions, today)
  /\ UNCHANGED << clockVars, formVars, budgetVars, transactions, storage, nextId >>

\* The service call of request i settles and handleGetAdvice resumes.
AdviceSettles(i, outcome) ==
  /\ i \in 1..Len(pending)
  /\ aiAdvice' = CASE outcome = "text" -> ServiceText
                   [] outcome = "empty" -> NoInsightMessage
                   [] OTHER -> FailureMessage
  /\ isAiLoading' = FALSE
  /\ pending' = SubSeq(pending, 1, i - 1) \o SubSeq(pending, i + 1, Len(pending))
  /\ UNCHANGED << clockVars, formVars, budgetVars, storeVars, viewVars >>

\* The collapse link under a displayed advice.
CollapseAdvice ==
  /\ Len(currentMonthTransactions) > 0
  /\ aiAdvice # NoAdvice
  /\ aiAdvice' = NoAdvice
  /\ UNCHANGED << clockVars, formVars, budgetVars, isAiLoading, pending,
                  storeVars, viewVars >>

\* The page is loaded again: the state initialisers read localStorage.
Reload ==
  /\ transactions' = JsonParse(storage.transactions)
  /\ monthlyBudget' = ParseFloat(storage.budget).val
  /\ viewDate' = today
  /\ newTransTitle' = <<>>
  /\ newTransAmount' = <<>>
  /\ newTransType' = EXPENSE
  /\ isBudgetModalOpen' = FALSE
  /\ tempBudgetInput' = NumToString(ParseFloat(storage.budget).val)
  /\ aiAdvice' = NoAdvice
  /\ isAiLoading' = FALSE
  /\ isCurrentMonth' = TRUE
  /\ currentMonthTransactions' =
       RenderedSubset(JsonParse(storage.transactions), today)
  /\ pending' = <<>>
  /\ UNCHANGED << clockVars, storage, nextId >>

\* The ledger: what a user does to the transactions, the budget and the
\* view.  Filling in a form and submitting it is one step.
Next ==
  \/ Tick
  \/ \E offset \in {-1, 1} : ChangeMonth(offset)
  \/ \E title \in Titles, amountText \in LedgerAmounts, type \in TransactionType :
       SubmitForm(title, amountText, type)
  \/ \E id \in 1..MaxAdds : HandleDelete(id)
  \/ \E text \in LedgerBudgets : EditBudget(text)
  \/ Reload

Spec == Init /\ [][Next]_vars

\* Titles typed into the form's title field, the empty field among them.
FormTitles == {<<>>, Tea}

\* The form: each field is typed into on its own and the form is submitted
\* with the fields as they are.
NextForm ==
  \/ Tick
  \/ \E offset \in {-1, 1} : ChangeMonth(offset)
  \/ \E v \in FormTitles : SetNewTransTitle(v)
  \/ \E v \in AmountInputs : SetNewTransAmount(v)
  \/ \E v \in TransactionType : SetNewTransType(v)
  \/ HandleAddTransaction
  \/ \E id \in 1..MaxAdds : HandleDelete(id)

SpecForm == Init /\ [][NextForm]_vars

\* The budget modal: it is opened, its field is typed into, and it is saved
\* or cancelled with the field as it is.
NextBudget ==
  \/ Tick
  \/ OpenBudgetModal
  \/ \E v \in BudgetInputs : SetTempBudgetInput(v)
  \/ CancelBudget
  \/ SaveBudget

SpecBudget == Init /\ [][NextBudget]_vars

\* handleDelete as a function of its argument: it is called with the id of
\* any transaction ever created and with an id that was never given out.
NextDelete ==
  \/ Tick
  \/ \E offset \in {-1, 1} : ChangeMonth(offset)
  \/ \E amountText \in LedgerAmounts, type \in TransactionType :
       SubmitForm(Tea, amountText, type)
  \/ \E id \in 1..(MaxAdds + 1) : DeleteId(id)

SpecDelete == Init /\ [][NextDelete]_vars

\* The advice section next to the ledger: advice is requested, the requests
\* settle in any order and at any time, and a displayed advice is collapsed.
NextAdvice ==
  \/ Tick
  \/ \E offset \in {-1, 1} : ChangeMonth(offset)
  \/ \E amountText \in LedgerAmounts, type \in TransactionType :
       SubmitForm(Tea, amountText, type)
  \/ \E id \in 1..MaxAdds : HandleDelete(id)
  \/ \E text \in LedgerBudgets : EditBudget(text)
  \/ HandleGetAdvice
  \/ \E i \in 1..MaxAdds, outcome \in ServiceOutcomes : AdviceSettles(i, outcome)
  \/ CollapseAdvice

SpecAdvice == InitAdvice /\ [][NextAdvice]_vars

\* The service call of every request settles: the service answers, answers
\* with an empty text, or the call fails, for instance by a timeout.
SpecAdviceSettling ==
  /\ SpecAdvice
  /\ WF_vars(\E i \in 1..MaxAdds, outcome \in ServiceOutcomes :
               AdviceSettles(i, outcome))

\* ===================================================================
\* Properties
\* ===================================================================

\* The viewed month is the calendar month containing today.
ViewIsCurrent == MonthIndex(viewDate) = MonthIndex(today)
ViewIsFuture == MonthIndex(viewDate) > MonthIndex(today)

\* The stored transactions dated in the viewed year and month, by position.
InView == {i \in 1..Len(transactions) :
             /\ transactions[i].date.y = viewDate.y
             /\ transactions[i].date.m = viewDate.m}

RECURSIVE SumAt(_, _)
\* The sum of the amounts of txs at the positions in S.
SumAt(txs, S) ==
  IF S = {} THEN 0
  ELSE LET i == CHOOSE j \in S : TRUE
       IN  txs[i].amount + SumAt(txs, S \ {i})

\* The total of the viewed month's stored transactions of a type.
ViewTotal(type) ==
  SumAt(transactions, {i \in InView : transactions[i].type = type})

\* The same, over the transactions dated on day 1..lastDay of the month.
ViewTotalUntil(type, lastDay) ==
  SumAt(transactions, {i \in InView : /\ transactions[i].type = type
                                      /\ transactions[i].date.d <= lastDay})

RECURSIVE SumField(_, _)
\* The sum over a series of points or slices of one numeric field.
SumField(series, field) ==
  IF series = <<>> THEN 0
  ELSE series[1][field] + SumField(Tail(series), field)

\* ------------------------------------------------------------------- C1

StatsEvaluated ==
  \/ transactions' # transactions
  \/ monthlyBudget' # monthlyBudget
  \/ viewDate' # viewDate
  \/ isCurrentMonth' # isCurrentMonth

\* A step after which the render re-evaluates chartData: one of its
\* dependencies [currentMonthTransactions, viewDate, isCurrentMonth] changed.
ChartEvaluated ==
  \/ transactions' # transactions
  \/ viewDate' # viewDate
  \/ isCurrentMonth' # isCurrentMonth

\* ------------------------------------------------------------------- C2

C2_Holds ==
  /\ (ViewIsCurrent /\ stats.remainingBudget <= 0) => stats.dailyAvailable = Zero
  /\ ~ViewIsCurrent => stats.dailyAvailable = Zero

\* C2 (as claimed): whenever stats is computed, dailyAvailable is 0 if the
\* viewed month is the current month and remainingBudget <= 0, and 0 if the
\* viewed month is not the current month.
C2_DailyAvailableZero == [][StatsEvaluated => C2_Holds']_vars

\* ------------------------------------------------------------------- C3

C3_Holds ==
  LET days == IF ViewIsCurrent THEN today.d
              ELSE IF ViewIsFuture THEN 0
              ELSE LastDayOfMonth(viewDate.y, viewDate.m)
  IN  /\ Len(chartData) = days
      /\ \A k \in 1..Len(chartData) : chartData[k].date = DayLabel(k)

\* C3 (as claimed): whenever chartData is computed, the series has one point
\* per day, labelled in ascending order from day 1: days 1..today.day in the
\* current month, none in a later month, every day of an earlier month.
C3_ChartDays == [][ChartEvaluated => C3_Holds']_vars

\* ------------------------------------------------------------------- C4

RECURSIVE SumPercentages(_)
\* The sum of the slices' percentages, for slices over one denominator: its
\* numerator.
SumPercentages(slices) ==
  IF slices = <<>> THEN 0
  ELSE slices[1].percentage.num + SumPercentages(Tail(slices))

\* C4 (as claimed): whenever the viewed month's total expense is greater
\* than 0, the percentages of the category slices sum to 100.
C4_PercentagesSumTo100 ==
  ViewTotal(EXPENSE) > 0 =>
    /\ \A k \in 1..Len(categoryStats) :
         categoryStats[k].percentage.den = ViewTotal(EXPENSE)
    /\ SumPercentages(categoryStats) = 100 * ViewTotal(EXPENSE)

\* ------------------------------------------------------------------- C5

\* C5 (as claimed): categoryStats is empty when the viewed month's total
\* expense is 0, and not empty when the month holds an EXPENSE transaction.
C5_EmptyIffNoExpense ==
  /\ ViewTotal(EXPENSE) = 0 => categoryStats = <<>>
  /\ (\E i \in InView : transactions[i].type = EXPENSE) => categoryStats # <<>>

\* ------------------------------------------------------------------- C6

\* The position in the month subset of the first EXPENSE titled name.
FirstEncounter(name) ==
  CHOOSE i \in 1..Len(monthSubset) :
    /\ monthSubset[i].type = EXPENSE /\ monthSubset[i].title = name
    /\ \A j \in 1..(i - 1) :
         ~(monthSubset[j].type = EXPENSE /\ monthSubset[j].title = name)

\* C6 (as claimed): the slices are in descending order of amount, and slices
\* of equal amount are in the order in which their titles were first
\* encountered in the month subset.
C6_SlicesOrdered ==
  \A i, j \in 1..Len(categoryStats) :
    i < j =>
      /\ categoryStats[i].amount >= categoryStats[j].amount
      /\ categoryStats[i].amount = categoryStats[j].amount
           => FirstEncounter(categoryStats[i].name)
                < FirstEncounter(categoryStats[j].name)

\* ------------------------------------------------------------------- C7

\* C7: totalSpentThisMonth and totalIncomeThisMonth are the sums of the
\* viewed month's EXPENSE and INCOME amounts, and remainingBudget is
\* monthlyBudget minus totalSpentThisMonth, negative when the expenses exceed
\* the budget.
C7_TotalsAndRemaining ==
  /\ stats.totalSpentThisMonth = ViewTotal(EXPENSE)
  /\ stats.totalIncomeThisMonth = ViewTotal(INCOME)
  /\ stats.remainingBudget = monthlyBudget - ViewTotal(EXPENSE)
  /\ ViewTotal(EXPENSE) > monthlyBudget => stats.remainingBudget < 0

\* An over-budget month with an income.
C7_Witness ==
  /\ stats.remainingBudget < 0
  /\ stats.totalIncomeThisMonth > 0

\* ------------------------------------------------------------------- C8

C8_Holds ==
  LET last == LastDayOfMonth(viewDate.y, viewDate.m)
  IN  /\ ViewIsCurrent =>
           /\ stats.daysRemaining = Max(1, last - today.d + 1)
           /\ stats.daysRemaining \in 1..last
      /\ ~ViewIsCurrent => stats.daysRemaining = 0

\* C8 (as claimed): whenever stats is computed, daysRemaining is
\* max(1, lastDayOfMonth - today.day + 1), within 1..lastDayOfMonth, if the
\* viewed month is the current month, and 0 if it is not.
C8_DaysRemaining == [][StatsEvaluated => C8_Holds']_vars

\* ------------------------------------------------------------------- C9

\* The stored transactions of the viewed month, in the order of the store.
StoredInView ==
  [k \in 1..Cardinality(InView) |->
     transactions[CHOOSE i \in InView :
                    Cardinality({j \in InView : j < i}) = k - 1]]

\* C9: currentMonthTransactions holds exactly the stored transactions dated
\* in the viewed year and month, in the order of the store, and a transaction
\* of another month adds to no total, chart point or category slice.
C9_MonthSubset ==
  /\ currentMonthTransactions = StoredInView
  /\ stats.totalSpentThisMonth + stats.totalIncomeThisMonth
       = ViewTotal(EXPENSE) + ViewTotal(INCOME)
  /\ SumField(chartData, "income") <= ViewTotal(INCOME)
  /\ SumField(chartData, "expense") <= ViewTotal(EXPENSE)
  /\ SumField(categoryStats, "amount") <= ViewTotal(EXPENSE)

\* The store holds a transaction of the viewed month and one of another.
C9_Witness ==
  /\ Len(currentMonthTransactions) > 0
  /\ Len(transactions) > Len(currentMonthTransactions)

\* ------------------------------------------------------------------- C10

ExpensesInView == {i \in InView : transactions[i].type = EXPENSE}

\* C11 (as claimed): categoryStats has exactly one slice per distinct title
\* among the viewed month's EXPENSE transactions, the slice's amount is the
\* sum of the amounts of the EXPENSE transactions with that title (INCOME
\* transactions add to no slice), and the slice amounts sum to
\* stats.totalSpentThisMonth.
C11_OneSlicePerTitle ==
  /\ \A i \in ExpensesInView :
       \E k \in 1..Len(categoryStats) :
         categoryStats[k].name = transactions[i].title
  /\ \A k \in 1..Len(categoryStats) :
       /\ \A l \in 1..Len(categoryStats) :
            categoryStats[l].name = categoryStats[k].name => l = k
       /\ categoryStats[k].amount =
            SumAt(transactions,
                  {i \in ExpensesInView :
                     transactions[i].title = categoryStats[k].name})
       /\ categoryStats[k].amount > 0
  /\ SumField(categoryStats, "amount") = stats.totalSpentThisMonth

\* ------------------------------------------------------------------- C12

\* The total of the viewed month's stored transactions of a type dated on
\* day d.
ViewTotalOn(type, d) ==
  SumAt(transactions, {i \in InView : /\ transactions[i].type = type
                                      /\ transactions[i].date.d = d})

\* C12: the k-th emitted chart point is the point of day k; its income is the
\* sum of the amounts of the month subset's INCOME transactions dated on that
\* day and its expense the sum of the amounts of the subset's EXPENSE
\* transactions dated on that day, both 0 for a day without transactions.
C12_ChartPointPerDay ==
  LET series == chartData
  IN  \A k \in 1..Len(series) :
        /\ series[k].date = DayLabel(k)
        /\ series[k].income = ViewTotalOn(INCOME, k)
        /\ series[k].expense = ViewTotalOn(EXPENSE, k)
        /\ (\A i \in InView : transactions[i].date.d # k)
             => series[k].income = 0 /\ series[k].expense = 0

\* A series with a point holding an income and no expense, a point holding
\* an expense and no income, and a point of a day without transactions.
C12_Witness ==
  /\ \E k \in 1..Len(chartData) :
       chartData[k].income > 0 /\ chartData[k].expense = 0
  /\ \E k \in 1..Len(chartData) :
       chartData[k].expense > 0 /\ chartData[k].income = 0
  /\ \E k \in 1..Len(chartData) :
       chartData[k].expense = 0 /\ chartData[k].income = 0

\* ------------------------------------------------------------------- C13

\* C13: no quotient is formed over a zero divisor.  While isCurrentMonth,
\* daysRemaining is at least 1 and dailyAvailable is 0 or the quotient of
\* remainingBudget by daysRemaining; otherwise dailyAvailable is the constant
\* 0 and no division is made.  Every category percentage is a quotient by
\* the month's total expense, which is not 0.
C13_NoDivisionByZero ==
  LET s == stats
      slices == categoryStats
  IN  /\ s.dailyAvailable.den # 0
      /\ isCurrentMonth =>
           /\ s.daysRemaining >= 1
           /\ s.dailyAvailable \in {Zero, Quot(s.remainingBudget, s.daysRemaining)}
      /\ ~isCurrentMonth => s.dailyAvailable = Zero
      /\ \A k \in 1..Len(slices) :
           /\ slices[k].percentage.den # 0
           /\ slices[k].percentage.den = ViewTotal(EXPENSE)

\* Both divisions are made: dailyAvailable is a quotient by more than one
\* day and there is a category slice.
C13_Witness ==
  /\ isCurrentMonth
  /\ stats.daysRemaining > 1
  /\ stats.dailyAvailable = Quot(stats.remainingBudget, stats.daysRemaining)
  /\ Len(categoryStats) > 0

\* ------------------------------------------------------------------- C14

\* Amount texts that are empty, not a number, zero or negative.
BadAmountTexts == {<<>>, <<"x">>, <<"0">>, <<"-", "1">>}

\* The form holds an empty title or one of the bad amount texts.
FormIsInvalid == newTransTitle = <<>> \/ newTransAmount \in BadAmountTexts

\* C14: from an empty store, every stored transaction has an amount greater
\* than 0 and a title that is not empty, and a submission of a form holding
\* an empty title, an empty amount, an amount that is not a number or an
\* amount of 0 or less changes neither the store, nor the form's fields, nor
\* the view date.
C14_AddValidates ==
  /\ [](\A i \in 1..Len(transactions) :
          transactions[i].amount > 0 /\ transactions[i].title # <<>>)
  /\ [][(HandleAddTransaction /\ FormIsInvalid)
          => UNCHANGED << transactions, formVars, viewDate >>]_vars

\* A form that can be submitted holds a title and an amount of 0, after a
\* transaction was stored.
C14_Witness ==
  /\ isCurrentMonth
  /\ nextId <= MaxAdds
  /\ newTransTitle # <<>>
  /\ newTransAmount = <<"0">>
  /\ Len(transactions) > 0

\* ------------------------------------------------------------------- C15

\* Budget texts that are empty, not a number, zero or negative.
BadBudgetTexts == {<<>>, <<"x">>, <<"0">>, <<"-", "1">>}

\* The number a budget text denotes.
BudgetTextValue(text) ==
  CASE text = <<"2">> -> 2
    [] text = <<"3">> -> 3
    [] text = <<"5", "0", "0", "0">> -> 5000

\* C15: from the default budget, monthlyBudget is always greater than 0; a
\* saveBudget on a text that is not a number, or is zero or negative, leaves
\* monthlyBudget as it was and the modal open; a saveBudget on any other text
\* makes monthlyBudget the number entered and closes the modal.
C15_SaveBudgetValidates ==
  /\ [](monthlyBudget > 0)
  /\ [][SaveBudget =>
          IF tempBudgetInput \in BadBudgetTexts
          THEN monthlyBudget' = monthlyBudget /\ isBudgetModalOpen'
          ELSE /\ monthlyBudget' = BudgetTextValue(tempBudgetInput)
               /\ ~isBudgetModalOpen']_vars

\* A budget was saved, and the modal is open again over a negative text.
C15_Witness ==
  /\ monthlyBudget = 3
  /\ isBudgetModalOpen
  /\ tempBudgetInput = <<"-", "1">>

\* ------------------------------------------------------------------- C16

\* The position in the store of the transaction with an id.
PositionOf(txs, id) == CHOOSE i \in 1..Len(txs) : txs[i].id = id

\* next is now without the transaction of the id: every other transaction is
\* in next as it was and in the same relative order, and nothing else is.
RemovedExactly(now, next, id) ==
  /\ \A i \in 1..Len(now) :
       now[i].id # id => \E j \in 1..Len(next) : next[j] = now[i]
  /\ \A j \in 1..Len(next) :
       next[j].id # id /\ \E i \in 1..Len(now) : now[i] = next[j]
  /\ Len(next) = Cardinality({i \in 1..Len(now) : now[i].id # id})
  /\ \A j, k \in 1..Len(next) :
       j < k => PositionOf(now, next[j].id) < PositionOf(now, next[k].id)

ChangeMonthStep == \E offset \in {-1, 1} : ChangeMonth(offset)
SaveBudgetStep == \E text \in LedgerBudgets : EditBudget(text)
AdviceStep ==
  \/ HandleGetAdvice
  \/ \E i \in 1..MaxAdds, outcome \in ServiceOutcomes : AdviceSettles(i, outcome)

\* The store gains one transaction, in front of the others.
Prepended ==
  /\ transactions' # <<>>
  /\ Tail(transactions') = transactions
  /\ \A i \in 1..Len(transactions) : transactions[i].id # transactions'[1].id

\* C17: a stored transaction's fields never change; the stored list changes
\* only by a transaction being put in front of it or by one being removed
\* from it; the month navigator, saving the budget, an advice request and the
\* render of the month's list, which sorts the month subset by timestamp,
\* leave the stored list as it was.
C17_StoreImmutable ==
  [][/\ \A i \in 1..Len(transactions), j \in 1..Len(transactions') :
          transactions[i].id = transactions'[j].id
            => transactions[i] = transactions'[j]
     /\ \/ transactions' = transactions
        \/ Prepended
        \/ \E id \in 1..MaxAdds :
             /\ \E i \in 1..Len(transactions) : transactions[i].id = id
             /\ RemovedExactly(transactions, transactions', id)
     /\ (ChangeMonthStep \/ SaveBudgetStep \/ AdviceStep \/ CollapseAdvice)
          => transactions' = transactions
     /\ currentMonthTransactions' = SortByTimestampDesc(currentMonthTransactions')
    ]_vars

\* Two transactions of different months are stored, a month that is not the
\* current one is viewed, the budget was saved and an advice has arrived.
C17_Witness ==
  /\ Len(transactions) = 2
  /\ transactions[1].date.m # transactions[2].date.m
  /\ ~ViewIsCurrent
  /\ Len(currentMonthTransactions) = 1
  /\ monthlyBudget # DefaultBudget
  /\ aiAdvice = ServiceText

\* ------------------------------------------------------------------- C18

\* C18: at most one advice request is in flight, and one is in flight only
\* while isAiLoading; a request starts only when none is in flight.
C18_SingleRequestInFlight ==
  /\ [](Len(pending) <= 1)
  /\ [](Len(pending) = 1 => isAiLoading)
  /\ [][Len(pending') > Len(pending) => pending = <<>>]_vars

\* A request is in flight after the month was changed and the store emptied
\* of the month's transactions, so that the advice section is not shown.
C18_Witness ==
  /\ Len(pending) = 1
  /\ isAiLoading
  /\ currentMonthTransactions = <<>>
  /\ ~ViewIsCurrent
  /\ transactions # <<>>

\* ------------------------------------------------------------------- C19

\* What the derived values are computed from.
LocalData == << transactions, monthlyBudget, viewDate, clock >>

\* C19: an advice request that starts, completes or fails changes neither the
\* store, nor the budget, nor the view date, nor stats, chartData or
\* categoryStats as computed from the state it leaves; and while a request
\* is pending the derived values are those of the stored transactions.
C19_IndependentOfAdvice ==
  /\ [][AdviceStep =>
          /\ UNCHANGED LocalData
          /\ \A subset \in {currentMonthTransactions'}, budget \in {monthlyBudget'},
                vd \in {viewDate'}, cur \in {isCurrentMonth'}, now \in {today'},
                stored \in {monthSubset'} :
               /\ StatsOf(subset, budget, vd, cur, now) = stats
               /\ ChartDataOf(subset, vd, cur, now) = chartData
               /\ CategoryStatsOf(stored) = categoryStats]_vars
  /\ [](Len(pending) > 0 =>
          /\ stats.totalSpentThisMonth = ViewTotal(EXPENSE)
          /\ stats.totalIncomeThisMonth = ViewTotal(INCOME)
          /\ stats.remainingBudget = monthlyBudget - ViewTotal(EXPENSE)
          /\ SumField(categoryStats, "amount") = ViewTotal(EXPENSE))

\* A request is pending while the viewed month has an expense, a chart and
\* a category slice.
C19_Witness ==
  /\ Len(pending) = 1
  /\ aiAdvice = NoAdvice
  /\ stats.totalSpentThisMonth > 0
  /\ Len(chartData) > 0
  /\ Len(categoryStats) > 0

\* ------------------------------------------------------------------- C20

\* A step in which handleAddTransaction stores a transaction.
AddSucceeds == nextId' = nextId + 1

\* C20 (as claimed): after handleAddTransaction stores a transaction, the
\* transaction is dated today, the viewed month is the current month and the
\* transaction is in the displayed month subset, also on a day whose UTC
\* calendar date is not the local calendar date.
C20_AddedIsDisplayed ==
  [][AddSucceeds =>
       /\ transactions'[1].date = today'
       /\ ViewIsCurrent'
       /\ \E k \in 1..Len(currentMonthTransactions') :
            currentMonthTransactions'[k] = transactions'[1]]_vars

\* ------------------------------------------------------------------- C21

\* A step in which handleGetAdvice sends a request to the service.
RequestSent == HandleGetAdvice /\ Len(pending') = Len(pending) + 1

\* C21 (as claimed): the total spent, the total income and the remaining
\* budget in the figures of a request are the displayed
\* stats.totalSpentThisMonth, stats.totalIncomeThisMonth and
\* stats.remainingBudget of the viewed month, and the budget is the current
\* budget, in every viewed month that shows the advice button.
C21_AdviceFiguresOfViewedMonth ==
  [][RequestSent =>
       LET sent == pending'[Len(pending')].prompt
       IN  /\ sent.budget = monthlyBudget
           /\ sent.totalSpent = stats.totalSpentThisMonth
           /\ sent.totalIncome = stats.totalIncomeThisMonth
           /\ sent.remaining = stats.remainingBudget]_vars

\* ------------------------------------------------------------------- C22

\* C22 (as claimed): changeMonth leaves aiAdvice null; aiAdvice ceases to be
\* null only by an advice request of the user; and the response of a request
\* is stored only while the viewed month is the month the request was
\* started from, however the month change and the arrival of the response
\* interleave.
C22_NoAdviceAcrossMonths ==
  /\ [][ChangeMonthStep => aiAdvice' = NoAdvice]_vars
  /\ [][(aiAdvice = NoAdvice /\ aiAdvice' # NoAdvice) => AdviceStep]_vars
  /\ [][\A i \in 1..MaxAdds, outcome \in ServiceOutcomes :
          AdviceSettles(i, outcome) =>
            MonthIndex(pending[i].viewDate) = MonthIndex(viewDate)]_vars

\* ------------------------------------------------------------------- C23

\* C23 (as claimed): changeMonth(-1) moves the view to the calendar month
\* before the viewed one and changeMonth(+1) to the calendar month after it,
\* whatever the day of the view date; so changeMonth(+1) followed by
\* changeMonth(-1) returns to the viewed month.
C23_ChangeMonthByOne ==
  [][\A offset \in {-1, 1} :
       ChangeMonth(offset) =>
         MonthIndex(viewDate') = MonthIndex(viewDate) + offset]_vars

\* ------------------------------------------------------------------- C24

\* C24 (as claimed): while the viewed month is the current month the
\* next-month button is disabled, and the viewed month is never later than
\* the current month.
C24_NeverLaterThanCurrent ==
  /\ ViewIsCurrent => ~ENABLED ChangeMonth(1)
  /\ ~ViewIsFuture

\* ------------------------------------------------------------------- C25

\* The text handleGetAdvice stores for an outcome of the service call.
AdviceFor(outcome) ==
  CASE outcome = "text" -> ServiceText
    [] outcome = "empty" -> NoInsightMessage
    [] outcome = "error" -> FailureMessage

\* C25: when the service call of a request settles, handleGetAdvice ends with
\* isAiLoading false and aiAdvice a text that is not empty: the service's
\* text, the placeholder for an empty text, or the fallback message for a
\* failed call.  Without an API key it ends at once with the missing-key
\* message and no call of the service.  If the service call of every request
\* settles, a request in flight is eventually over and isAiLoading false.
C25_AdviceTerminates ==
  /\ [][\A i \in 1..MaxAdds, outcome \in ServiceOutcomes :
          AdviceSettles(i, outcome) =>
            /\ ~isAiLoading'
            /\ aiAdvice' = AdviceFor(outcome)
            /\ aiAdvice' \notin {NoAdvice, ""}]_vars
  /\ [][(HandleGetAdvice /\ ~hasApiKey) =>
          /\ ~isAiLoading'
          /\ aiAdvice' = MissingKeyMessage
          /\ pending' = <<>>]_vars
  /\ [](~hasApiKey => pending = <<>> /\ ~isAiLoading)
  /\ (isAiLoading ~> ~isAiLoading)
  /\ (pending # <<>> ~> pending = <<>>)

\* A request has failed and the fallback message is displayed.
C25_Witness ==
  /\ aiAdvice = FailureMessage
  /\ ~isAiLoading
  /\ pending = <<>>

\* ------------------------------------------------------------------- C26

\* C26: after any adds, deletes and budget saves, what localStorage holds
\* under the two keys reads back as the transaction list in memory, in its
\* order and with every field, and as the budget in memory; loading the page
\* again restores that list and that budget.
C26_PersistenceRoundTrip ==
  /\ [](/\ Len(storage.transactions) = Len(transactions)
        /\ \A i \in 1..Len(transactions) :
             /\ storage.transactions[i].id = transactions[i].id
             /\ storage.transactions[i].title = transactions[i].title
             /\ storage.transactions[i].type = transactions[i].type
             /\ storage.transactions[i].date = transactions[i].date
             /\ JsonNumber(storage.transactions[i].amount) = transactions[i].amount
             /\ JsonNumber(storage.transactions[i].timestamp)
                  = transactions[i].timestamp
        /\ ParseFloat(storage.budget) = Num(monthlyBudget))
  /\ [][Reload => UNCHANGED << transactions, monthlyBudget >>]_vars

\* The page was loaded again on a later day, after two transactions were
\* added, one of them deleted and the budget saved.
C26_Witness ==
  /\ clock = 2
  /\ viewDate = today
  /\ nextId = 3
  /\ Len(transactions) = 1
  /\ monthlyBudget = 1

====
